---- MODULE Spec2Model ----
(***************************************************************************)
(* A model of the notebook                                                 *)
(*   tutorial/Training a new Transformer Language Model from scratch.ipynb *)
(* as a state machine: the working directory, the kernel's namespace and   *)
(* the position of the run in the notebook's list of code cells.  Every    *)
(* code cell is one action.  The library calls the cells make are modelled *)
(* by what they do to the working directory and to the objects they        *)
(* return, on a small byte alphabet.                                       *)
(***************************************************************************)
EXTENDS Integers, Sequences, FiniteSets, TLC

(***************************************************************************)
(* Bounds of the model.                                                    *)
(***************************************************************************)
\* How many times the notebook is run top to bottom in one working directory.
MaxRuns == 2
\* The byte alphabet is 1..NumBytes; byte 1 is the space.
NumBytes == 3
\* The longest text handed to tokenizer.encode.
MaxTextLen == 2
\* The machine has no GPU or MaxGpus GPUs.
MaxGpus == 2
\* The largest corpus makes this many multiples of save_steps full batches.
MaxCheckpoints == 3

(***************************************************************************)
(* The literals of the notebook.                                           *)
(***************************************************************************)
VocabSize == 52000
MinFrequency == 2
TruncationMaxLength == 512
MaxPositionEmbeddings == 514
NumAttentionHeads == 12
NumHiddenLayers == 6
TypeVocabSize == 1
BlockSize == 128
\* mlm_probability=0.15, in hundredths
MlmProbabilityPct == 15
NumTrainEpochs == 1
PerGpuTrainBatchSize == 64
SaveSteps == 10000
SaveTotalLimit == 2

\* A special-token list in BERT's order, the padding token first.
SpecialTokensPadFirst == << "<pad>", "<unk>", "<s>", "</s>", "<mask>" >>

\* special_tokens=[...] of tokenizer.train, in the order of the list
SpecialTokens == << "<s>", "<pad>", "</s>", "<unk>", "<mask>" >>

\* What RobertaConfig(...) holds for the keywords the notebook does not pass.
RobertaConfigDefaults ==
  [ vocab_size |-> 30522, hidden_size |-> 768, num_hidden_layers |-> 12,
    num_attention_heads |-> 12, intermediate_size |-> 3072,
    max_position_embeddings |-> 512,
    type_vocab_size |-> 2, bos_token_id |-> 0, pad_token_id |-> 1,
    eos_token_id |-> 2 ]

(***************************************************************************)
(* Bytes, texts, tokens.                                                   *)
(***************************************************************************)
Bytes == 1..NumBytes
SP == 1

\* A token of the vocabulary: a special token (sp) or a string of bytes (bs).
SpecialTok(s) == [sp |-> s, bs |-> <<>>]
ByteTok(b) == [sp |-> "", bs |-> b]

RECURSIVE SeqsUpTo(_)
SeqsUpTo(n) ==
  IF n = 0 THEN {<<>>}
  ELSE LET S == SeqsUpTo(n - 1)
       IN  S \cup {Append(s, b) : s \in {t \in S : Len(t) = n - 1}, b \in Bytes}

Range(s) == {s[i] : i \in DOMAIN s}

RECURSIVE Flatten(_)
Flatten(ss) == IF ss = <<>> THEN <<>> ELSE Head(ss) \o Flatten(Tail(ss))

RECURSIVE SumSeq(_)
SumSeq(s) == IF s = <<>> THEN 0 ELSE Head(s) + SumSeq(Tail(s))

\* The length of the run of bytes at the head of s that satisfy "is a space"
\* (sp = TRUE) or "is not a space" (sp = FALSE).
RECURSIVE RunLen(_, _)
RunLen(s, sp) ==
  IF s = <<>> \/ ((s[1] = SP) # sp) THEN 0 ELSE 1 + RunLen(Tail(s), sp)

\* The ByteLevel pre-tokenizer (add_prefix_space off) on a text of letters and
\* spaces: the GPT-2 pattern  ` ?\p{L}+ | \s+(?!\S) | \s+`.
RECURSIVE PreTokenize(_)
PreTokenize(s) ==
  IF s = <<>> THEN <<>>
  ELSE LET k == RunLen(s, TRUE)
           n == IF k = 0 THEN RunLen(s, FALSE)
                ELSE IF k = Len(s) THEN k
                ELSE IF k = 1 THEN 1 + RunLen(Tail(s), FALSE)
                ELSE k - 1
       IN  <<SubSeq(s, 1, n)>> \o PreTokenize(SubSeq(s, n + 1, Len(s)))

(***************************************************************************)
(* Files.  A path is the directory, the checkpoint sub-directory (0: none, *)
(* k: checkpoint-k), the file's name and its extension.                    *)
(***************************************************************************)
OutputDir == "EsperBERTo"
TopFile(n, e) == [dir |-> ".", ckpt |-> 0, name |-> n, ext |-> e]
OutFile(k, n, e) == [dir |-> OutputDir, ckpt |-> k, name |-> n, ext |-> e]
OscarTxt == TopFile("oscar.eo", "txt")
VocabJson == OutFile(0, "vocab", "json")
MergesTxt == OutFile(0, "merges", "txt")

\* What a file holds.
TextFile(ls) == [type |-> "text", lines |-> ls]
VocabFile(v) == [type |-> "vocab", vocab |-> v]
MergesFile(m) == [type |-> "merges", merges |-> m]
ConfigFile(c) == [type |-> "config", config |-> c]
WeightsFile(w) == [type |-> "weights", weights |-> w]
BlobFile == [type |-> "blob"]

\* f with the file p holding c (created or overwritten).
WriteFile(f, p, c) == [q \in DOMAIN f \cup {p} |-> IF q = p THEN c ELSE f[q]]
\* f without the files of D.
RemoveFiles(f, D) == [q \in DOMAIN f \ D |-> f[q]]

\* Path(".").glob("**/*.txt"): every file below the working directory, at any
\* depth, whose name ends in .txt.
GlobTxt(f) == {p \in DOMAIN f : p.ext = "txt"}

\* A token as merges.txt prints it: the byte-level alphabet prints the space
\* as a character that is not a space (all non-space bytes outside the small
\* alphabet are folded into its last byte).
RenderTok(bs) == [i \in DOMAIN bs |-> IF bs[i] = SP THEN NumBytes ELSE bs[i]]

\* The lines of a file read as text, each with the number of times it occurs.
\* merges.txt holds one line "left right" per merge.
TextLines(c) ==
  IF c.type = "text" THEN c.lines
  ELSE IF c.type = "merges"
  THEN [i \in DOMAIN c.merges |->
          [line |-> RenderTok(c.merges[i][1]) \o <<SP>> \o RenderTok(c.merges[i][2]),
           count |-> 1]]
  ELSE <<>>

(***************************************************************************)
(* ByteLevelBPETokenizer.train                                             *)
(***************************************************************************)
\* The alphabet of a trainer that starts from the characters of the corpus.
CorpusAlphabet(ws) == UNION {Range(ws[i].w) : i \in DOMAIN ws}

\* The alphabet the trainer starts from: the byte-level alphabet, every byte,
\* whatever the corpus holds.
InitialAlphabet(ws) == Bytes

\* The words of the lines of one file, each with its count.
WordsOfLines(ls) ==
  Flatten([i \in DOMAIN ls |->
             LET pt == PreTokenize(ls[i].line)
             IN  [j \in DOMAIN pt |-> [w |-> pt[j], n |-> ls[i].count]]])

\* The words of the files of P in the directory f.
RECURSIVE WordsOfFiles(_, _)
WordsOfFiles(f, P) ==
  IF P = {} THEN <<>>
  ELSE LET p == CHOOSE q \in P : TRUE
       IN  WordsOfLines(TextLines(f[p])) \o WordsOfFiles(f, P \ {p})

\* The id of a token in a vocabulary (its place, from 0), -1 when absent:
\* token_to_id.
TokenToId(vocab, tok) ==
  IF \E i \in DOMAIN vocab : vocab[i] = tok
  THEN (CHOOSE i \in DOMAIN vocab : vocab[i] = tok) - 1
  ELSE -1

\* How often the pair p occurs in the word w.
PairOcc(w, p) == Cardinality({j \in 1..(Len(w) - 1) : w[j] = p[1] /\ w[j + 1] = p[2]})

\* w with every occurrence of the pair p, left to right, replaced by n.
RECURSIVE MergeWord(_, _, _)
MergeWord(w, p, n) ==
  IF Len(w) < 2 THEN w
  ELSE IF w[1] = p[1] /\ w[2] = p[2]
       THEN <<n>> \o MergeWord(SubSeq(w, 3, Len(w)), p, n)
       ELSE <<w[1]>> \o MergeWord(Tail(w), p, n)

\* The merge loop of the trainer: the most frequent pair (ties: the smaller
\* pair of ids) becomes a token, until the vocabulary is full or no pair
\* occurs min_frequency times.  ws are the words as sequences of ids.
RECURSIVE BpeLoop(_, _, _, _, _)
BpeLoop(vocab, merges, ws, size, minFreq) ==
  LET pairs == UNION {{<<ws[i].w[j], ws[i].w[j + 1]>> : j \in 1..(Len(ws[i].w) - 1)}
                        : i \in DOMAIN ws}
      cnt(p) == SumSeq([i \in DOMAIN ws |-> ws[i].n * PairOcc(ws[i].w, p)])
      less(p, q) == p[1] < q[1] \/ (p[1] = q[1] /\ p[2] <= q[2])
      best == CHOOSE p \in pairs :
                \A q \in pairs : cnt(p) > cnt(q) \/ (cnt(p) = cnt(q) /\ less(p, q))
      tok == ByteTok(vocab[best[1] + 1].bs \o vocab[best[2] + 1].bs)
      old == TokenToId(vocab, tok)
      id == IF old >= 0 THEN old ELSE Len(vocab)
  IN  IF Len(vocab) >= size \/ pairs = {} THEN [vocab |-> vocab, merges |-> merges]
      ELSE IF cnt(best) < minFreq THEN [vocab |-> vocab, merges |-> merges]
      ELSE BpeLoop(IF old >= 0 THEN vocab ELSE Append(vocab, tok),
                   Append(merges, <<vocab[best[1] + 1].bs, vocab[best[2] + 1].bs>>),
                   [i \in DOMAIN ws |-> [w |-> MergeWord(ws[i].w, best, id), n |-> ws[i].n]],
                   size, minFreq)

\* A set of bytes in ascending order.
RECURSIVE SortedBytes(_)
SortedBytes(S) ==
  IF S = {} THEN <<>>
  ELSE LET m == CHOOSE x \in S : \A y \in S : x <= y
       IN  <<m>> \o SortedBytes(S \ {m})

\* tokenizer.train(files, vocab_size, min_frequency, special_tokens): the
\* special tokens take the first ids in the order of the list, the alphabet
\* follows, the merges follow.
Train(f, files, size, minFreq, specials) ==
  LET ws == WordsOfFiles(f, files)
      alpha == SortedBytes(InitialAlphabet(ws))
      vocab0 == [i \in DOMAIN specials |-> SpecialTok(specials[i])]
                  \o [i \in DOMAIN alpha |-> ByteTok(<<alpha[i]>>)]
      ids == [i \in DOMAIN ws |->
                [w |-> [j \in DOMAIN ws[i].w |-> TokenToId(vocab0, ByteTok(<<ws[i].w[j]>>))],
                 n |-> ws[i].n]]
  IN  BpeLoop(vocab0, <<>>, ids, size, minFreq)

(***************************************************************************)
(* tokenizer.encode                                                        *)
(***************************************************************************)
\* The place of a pair of tokens in the merges, 0 when it is no merge.
MergeRank(merges, a, b) ==
  IF \E i \in DOMAIN merges : merges[i] = <<a, b>>
  THEN CHOOSE i \in DOMAIN merges : merges[i] = <<a, b>>
  ELSE 0

\* The BPE model on one word w (a sequence of byte strings): the merge of
\* lowest rank that applies is applied, until none applies.
RECURSIVE ApplyMerges(_, _)
ApplyMerges(merges, w) ==
  LET ranks == {MergeRank(merges, w[j], w[j + 1]) : j \in 1..(Len(w) - 1)} \ {0}
      r == CHOOSE x \in ranks : \A y \in ranks : x <= y
  IN  IF ranks = {} THEN w
      ELSE ApplyMerges(merges, MergeWord(w, merges[r], merges[r][1] \o merges[r][2]))

\* The ids of a sequence of byte strings.  The model has no unk_token: a
\* string the vocabulary does not hold is left out.
RECURSIVE IdsOf(_, _)
IdsOf(vocab, w) ==
  IF w = <<>> THEN <<>>
  ELSE LET id == TokenToId(vocab, ByteTok(Head(w)))
       IN  (IF id >= 0 THEN <<id>> ELSE <<>>) \o IdsOf(vocab, Tail(w))

\* tokenizer.encode(text).ids: pre-tokenizer, BPE model on each word,
\* truncation, post-processor.
Encode(tk, text) ==
  LET pt == PreTokenize(text)
      ids == Flatten([i \in DOMAIN pt |->
                        IdsOf(tk.vocab,
                              ApplyMerges(tk.merges, [j \in DOMAIN pt[i] |-> <<pt[i][j]>>]))])
      added == IF tk.post.set THEN 2 ELSE 0
      cut == IF tk.trunc > 0 /\ Len(ids) + added > tk.trunc
             THEN SubSeq(ids, 1, tk.trunc - added) ELSE ids
  IN  IF tk.post.set THEN <<tk.post.cls[2]>> \o cut \o <<tk.post.sep[2]>> ELSE cut

\* encode(text).tokens: the tokens of the ids.
TokensOf(tk, ids) == [i \in DOMAIN ids |-> tk.vocab[ids[i] + 1]]

(***************************************************************************)
(* The notebook: its code cells, top to bottom, by their ids.              *)
(***************************************************************************)
Cells ==
  << "184ba191", "666c9aa6", "762d951b", "c924c50f", "edb74619", "ae4e9e92",
     "86f97971", "b122da87", "09f011e4", "52a95d1d", "7a1d4de5", "99d289ba",
     "58873f3e", "0192ab9b", "de381787", "107a6a6c", "2e6453e9", "feec1cb8",
     "c01b777c", "9b916992", "caa66234" >>
NumCells == Len(Cells)
CellNo(c) == CHOOSE i \in DOMAIN Cells : Cells[i] = c

\* What each code cell does, in the words of the notebook's headings.
StepOf(c) ==
  CASE c = "184ba191" -> "download corpus"
    [] c = "666c9aa6" -> "install libraries"
    [] c \in {"762d951b", "c924c50f", "edb74619", "ae4e9e92", "86f97971", "b122da87"}
         -> "train tokenizer"
    [] c \in {"09f011e4", "52a95d1d", "7a1d4de5", "99d289ba"} -> "construct model"
    [] c \in {"58873f3e", "0192ab9b", "de381787", "107a6a6c", "2e6453e9"}
         -> "train language model"
    [] c \in {"feec1cb8", "c01b777c", "9b916992"} -> "fill-mask inference"
    [] OTHER -> "empty"

\* The corpus behind the download URL: one line, repeated.
SampleLines == { <<2, 2, SP, 2, 2>>, <<2, 3, SP, 2, 3>> }
LineCounts == { PerGpuTrainBatchSize * SaveSteps * k : k \in {1, MaxCheckpoints} }
Corpora == { << [line |-> l, count |-> n] >> : l \in SampleLines, n \in LineCounts }

\* The texts tokenizer.encode is tried on.
Texts == SeqsUpTo(MaxTextLen)

\* A name of the kernel's namespace, as an artifact beside the files.
Obj(n) == [dir |-> "<kernel>", ckpt |-> 0, name |-> n, ext |-> ""]

NoValue == [defined |-> FALSE]
EmptyNamespace ==
  [ paths |-> NoValue, tokenizer |-> NoValue, config |-> NoValue, model |-> NoValue,
    dataset |-> NoValue, data_collator |-> NoValue, training_args |-> NoValue,
    trainer |-> NoValue, fill_mask |-> NoValue ]

VARIABLES
  fs,          \* the working directory: path -> what the file holds
  dirs,        \* the directories made in the working directory
  installed,   \* transformers and tokenizers are installed
  ngpu,        \* the GPUs of the machine
  remote,      \* the corpus behind the download URL
  run,         \* which run of the notebook this is
  started,     \* the cells the kernel has begun in this run, in order
  finished,    \* the cells that have ended in this run, with their outcome
  halted,      \* a cell raised: the run stops
  firstRun,    \* the finished log of the first run, once it has ended
  producedBy,  \* artifact -> the runs and cells that wrote it
  calls,       \* library call -> the keywords it was last given in this run
  ns,          \* the kernel's namespace
  out          \* the output of the cell that runs or has just ended

vars == << fs, dirs, installed, ngpu, remote, run, started, finished, halted,
           firstRun, producedBy, calls, ns, out >>

Init ==
  /\ fs = << >>
  /\ dirs = {}
  /\ installed = FALSE
  /\ ngpu \in {0, MaxGpus}
  /\ remote \in Corpora
  /\ run = 1
  /\ started = << >>
  /\ finished = << >>
  /\ halted = FALSE
  /\ firstRun = << >>
  /\ producedBy = << >>
  /\ calls = << >>
  /\ ns = EmptyNamespace
  /\ out = [kind |-> "none"]

(***************************************************************************)
(* The kernel: one cell at a time, top to bottom; a Python exception stops *)
(* the run, the exit status of a `!` shell line does not.                  *)
(***************************************************************************)
FinishedCells == {finished[i].cell : i \in DOMAIN finished}
InProgress == Range(started) \ FinishedCells
Running(c) == c \in InProgress

\* A kernel that takes the next cell whether or not the one before has ended.
KernelIdleIgnored == TRUE

\* The kernel takes the next cell only when the one before has ended.
KernelIdle == InProgress = {}

\* The cell the kernel takes next: the one after the last it began.
NextCell == Cells[Len(started) + 1]

StartCell ==
  /\ KernelIdle
  /\ ~halted
  /\ Len(started) < NumCells
  /\ started' = Append(started, NextCell)
  /\ out' = [kind |-> "none"]
  /\ UNCHANGED << fs, dirs, installed, ngpu, remote, run, finished, halted,
                  firstRun, producedBy, calls, ns >>

\* The cell c ends with outcome o ("ok", "exit_nonzero": a shell line failed,
\* "error": Python raised) having read the artifacts R.
Ended(c, o, R) ==
  /\ finished' = Append(finished, [cell |-> c, outcome |-> o, reads |-> R])
  /\ halted' = (halted \/ o = "error")
  /\ UNCHANGED << ngpu, remote, run, started, firstRun >>

\* The cell ends and made no library call that takes the notebook's literals.
Finish(c, o, R) == Ended(c, o, R) /\ UNCHANGED calls

\* The cell ends having made the call api with the keywords kw.
FinishCalling(c, o, R, api, kw) ==
  /\ Ended(c, o, R)
  /\ calls' = [a \in DOMAIN calls \cup {api} |-> IF a = api THEN kw ELSE calls[a]]

\* The cell c raises, the working directory being f and d by then.
RaiseAfter(c, f, d) ==
  /\ out' = [kind |-> "error"]
  /\ fs' = f
  /\ dirs' = d
  /\ UNCHANGED << installed, producedBy, ns >>
  /\ Finish(c, "error", {})

\* The cell c raises before it changed anything.
Raise(c) == RaiseAfter(c, fs, dirs)

\* producedBy once cell c has written the artifacts A.
Produce(A, c) ==
  [a \in DOMAIN producedBy \cup A |->
     (IF a \in DOMAIN producedBy THEN producedBy[a] ELSE {})
       \cup (IF a \in A THEN {[run |-> run, cell |-> c]} ELSE {})]

(***************************************************************************)
(* 1. Find a dataset                                                       *)
(***************************************************************************)
\* !wget -c .../oscar.eo.txt : the download succeeds and the file holds the
\* corpus, or it fails and the directory is as before.  Either way the cell
\* ends; a shell line never raises.
DownloadCorpus ==
  /\ Running("184ba191")
  /\ \E ok \in BOOLEAN :
       IF ok
       THEN /\ fs' = WriteFile(fs, OscarTxt, TextFile(remote))
            /\ producedBy' = Produce({OscarTxt}, "184ba191")
            /\ out' = [kind |-> "shell", status |-> 0]
            /\ Finish("184ba191", "ok", {})
       ELSE /\ out' = [kind |-> "shell", status |-> 1]
            /\ UNCHANGED << fs, producedBy >>
            /\ Finish("184ba191", "exit_nonzero", {})
  /\ UNCHANGED << dirs, installed, ns >>

(***************************************************************************)
(* 2. Train a tokenizer                                                    *)
(***************************************************************************)
\* !pip uninstall -y tensorflow; !pip install git+...transformers; !pip list
PipInstall ==
  /\ Running("666c9aa6")
  /\ \E ok \in BOOLEAN :
       /\ installed' = (installed \/ ok)
       /\ out' = [kind |-> "shell", status |-> IF ok THEN 0 ELSE 1]
       /\ Finish("666c9aa6", IF ok THEN "ok" ELSE "exit_nonzero", {})
  /\ UNCHANGED << fs, dirs, producedBy, ns >>

\* paths = [str(x) for x in Path(".").glob("**/*.txt")]
\* tokenizer = ByteLevelBPETokenizer(); tokenizer.train(files=paths, ...)
TrainTokenizer ==
  /\ Running("762d951b")
  /\ IF ~installed THEN Raise("762d951b")
     ELSE LET paths == GlobTxt(fs)
              tr == Train(fs, paths, VocabSize, MinFrequency, SpecialTokens)
          IN  /\ ns' = [ns EXCEPT
                          !.paths = [defined |-> TRUE, value |-> paths],
                          !.tokenizer =
                             [defined |-> TRUE, vocab |-> tr.vocab, merges |-> tr.merges,
                              post |-> [set |-> FALSE], trunc |-> 0]]
              /\ producedBy' = Produce({Obj("paths"), Obj("tokenizer")}, "762d951b")
              /\ out' = [kind |-> "none"]
              /\ UNCHANGED << fs, dirs, installed >>
              /\ FinishCalling("762d951b", "ok", paths, "tokenizer.train",
                                [files |-> paths, vocab_size |-> VocabSize,
                                 min_frequency |-> MinFrequency,
                                 special_tokens |-> SpecialTokens])

\* vocab.json: the vocabulary as a dictionary from token to id.
VocabDict(vocab) == {<<vocab[i], i - 1>> : i \in DOMAIN vocab}
\* The vocabulary read back from the dictionary: the token of each id.
VocabOfDict(d) ==
  [i \in 1..Cardinality(d) |-> (CHOOSE e \in d : e[2] = i - 1)[1]]

\* tokenizer.save_model(directory): vocab.json and merges.txt, written into
\* the directory.
SaveTokenizerFiles(f, tk) ==
  WriteFile(WriteFile(f, VocabJson, VocabFile(VocabDict(tk.vocab))),
            MergesTxt, MergesFile(tk.merges))

\* !mkdir EsperBERTo (fails when the directory exists)
\* tokenizer.save_model("EsperBERTo")
SaveTokenizer ==
  /\ Running("c924c50f")
  /\ IF ~ns.tokenizer.defined THEN RaiseAfter("c924c50f", fs, dirs \cup {OutputDir})
     ELSE /\ dirs' = dirs \cup {OutputDir}
          /\ fs' = SaveTokenizerFiles(fs, ns.tokenizer)
          /\ producedBy' = Produce({VocabJson, MergesTxt}, "c924c50f")
          /\ out' = [kind |-> "shell", status |-> IF OutputDir \in dirs THEN 1 ELSE 0]
          /\ UNCHANGED << installed, ns >>
          /\ Finish("c924c50f", IF OutputDir \in dirs THEN "exit_nonzero" ELSE "ok",
                    {Obj("tokenizer")})

\* tokenizer = ByteLevelBPETokenizer("./EsperBERTo/vocab.json",
\*                                   "./EsperBERTo/merges.txt")
ReloadTokenizer ==
  /\ Running("edb74619")
  /\ IF ~installed \/ ~({VocabJson, MergesTxt} \subseteq DOMAIN fs)
     THEN Raise("edb74619")
     ELSE /\ ns' = [ns EXCEPT !.tokenizer =
                      [defined |-> TRUE, vocab |-> VocabOfDict(fs[VocabJson].vocab),
                       merges |-> fs[MergesTxt].merges,
                       post |-> [set |-> FALSE], trunc |-> 0]]
          /\ producedBy' = Produce({Obj("tokenizer")}, "edb74619")
          /\ out' = [kind |-> "none"]
          /\ UNCHANGED << fs, dirs, installed >>
          /\ Finish("edb74619", "ok", {VocabJson, MergesTxt})

\* tokenizer._tokenizer.post_processor = BertProcessing(
\*     ("</s>", tokenizer.token_to_id("</s>")), ("<s>", tokenizer.token_to_id("<s>")))
\* tokenizer.enable_truncation(max_length=512)
SetPostProcessor ==
  /\ Running("ae4e9e92")
  /\ LET sep == IF ns.tokenizer.defined
                THEN TokenToId(ns.tokenizer.vocab, SpecialTok("</s>")) ELSE -1
         cls == IF ns.tokenizer.defined
                THEN TokenToId(ns.tokenizer.vocab, SpecialTok("<s>")) ELSE -1
     IN  IF sep < 0 \/ cls < 0 THEN Raise("ae4e9e92")
         ELSE /\ ns' = [ns EXCEPT
                          !.tokenizer.post =
                             [set |-> TRUE, sep |-> <<"</s>", sep>>, cls |-> <<"<s>", cls>>],
                          !.tokenizer.trunc = TruncationMaxLength]
              /\ out' = [kind |-> "none"]
              /\ UNCHANGED << fs, dirs, installed, producedBy >>
              /\ Finish("ae4e9e92", "ok", {Obj("tokenizer")})

\* What a cell that encodes a text shows.
Encoding(tk, text) ==
  LET ids == Encode(tk, text)
  IN  [kind |-> "encoding", text |-> text, ids |-> ids, tokens |-> TokensOf(tk, ids)]

\* tokenizer.encode("Mi estas Julien."), for any text
EncodeSample ==
  /\ Running("86f97971")
  /\ IF ~ns.tokenizer.defined THEN Raise("86f97971")
     ELSE /\ \E text \in Texts : out' = Encoding(ns.tokenizer, text)
          /\ UNCHANGED << fs, dirs, installed, producedBy, ns >>
          /\ Finish("86f97971", "ok", {Obj("tokenizer")})

\* tokenizer.encode("Mi estas Julien.").tokens, for any text
EncodeSampleTokens ==
  /\ Running("b122da87")
  /\ IF ~ns.tokenizer.defined THEN Raise("b122da87")
     ELSE /\ \E text \in Texts : out' = Encoding(ns.tokenizer, text)
          /\ UNCHANGED << fs, dirs, installed, producedBy, ns >>
          /\ Finish("b122da87", "ok", {Obj("tokenizer")})

(***************************************************************************)
(* 3. Train a language model from scratch                                  *)
(***************************************************************************)
\* import torch; torch.cuda.is_available()
CheckCuda ==
  /\ Running("09f011e4")
  /\ IF ~installed THEN Raise("09f011e4")
     ELSE /\ out' = [kind |-> "value", value |-> (ngpu > 0)]
          /\ UNCHANGED << fs, dirs, installed, producedBy, ns >>
          /\ Finish("09f011e4", "ok", {})

\* The call with the vocabulary size of the pretrained RoBERTa.
ConfigKwargsRobertaVocab ==
  [ vocab_size |-> 50265, max_position_embeddings |-> MaxPositionEmbeddings,
    num_attention_heads |-> NumAttentionHeads, num_hidden_layers |-> NumHiddenLayers,
    type_vocab_size |-> TypeVocabSize ]

\* The keywords of the notebook's RobertaConfig(...) call.
ConfigKwargs ==
  [ vocab_size |-> VocabSize, max_position_embeddings |-> MaxPositionEmbeddings,
    num_attention_heads |-> NumAttentionHeads, num_hidden_layers |-> NumHiddenLayers,
    type_vocab_size |-> TypeVocabSize ]

\* RobertaConfig(**kw): the keywords given, the library's defaults for the rest.
RobertaConfig(kw) ==
  [k \in DOMAIN RobertaConfigDefaults \cup DOMAIN kw |->
     IF k \in DOMAIN kw THEN kw[k] ELSE RobertaConfigDefaults[k]]

\* config = RobertaConfig(vocab_size=52_000, ...)
MakeConfig ==
  /\ Running("52a95d1d")
  /\ IF ~installed THEN Raise("52a95d1d")
     ELSE /\ ns' = [ns EXCEPT !.config =
                      [defined |-> TRUE, kwargs |-> ConfigKwargs,
                       value |-> RobertaConfig(ConfigKwargs)]]
          /\ producedBy' = Produce({Obj("config")}, "52a95d1d")
          /\ out' = [kind |-> "none"]
          /\ UNCHANGED << fs, dirs, installed >>
          /\ FinishCalling("52a95d1d", "ok", {}, "RobertaConfig", ConfigKwargs)

\* model = RobertaForMaskedLM(config=config): fresh weights, no step trained.
MakeModel ==
  /\ Running("7a1d4de5")
  /\ IF ~ns.config.defined THEN Raise("7a1d4de5")
     ELSE /\ ns' = [ns EXCEPT !.model =
                      [defined |-> TRUE, config |-> ns.config.value,
                       weights |-> [step |-> 0, trained_on |-> << >>]]]
          /\ producedBy' = Produce({Obj("model")}, "7a1d4de5")
          /\ out' = [kind |-> "none"]
          /\ UNCHANGED << fs, dirs, installed >>
          /\ Finish("7a1d4de5", "ok", {Obj("config")})

\* model.num_parameters(): embeddings, the layers, the pooler, the LM head
\* (its decoder shares the word embeddings).
NumParameters(c) ==
  LET h == c.hidden_size
      ff == c.intermediate_size
      emb == (c.vocab_size + c.max_position_embeddings + c.type_vocab_size) * h + 2 * h
      layer == 4 * (h * h + h) + 2 * h + (h * ff + ff) + (ff * h + h) + 2 * h
      pooler == h * h + h
      head == (h * h + h) + 2 * h + c.vocab_size
  IN  emb + c.num_hidden_layers * layer + pooler + head

\* model.num_parameters()   # => 84 million parameters
ShowNumParameters ==
  /\ Running("99d289ba")
  /\ IF ~ns.model.defined THEN Raise("99d289ba")
     ELSE /\ out' = [kind |-> "value", value |-> NumParameters(ns.model.config)]
          /\ UNCHANGED << fs, dirs, installed, producedBy, ns >>
          /\ Finish("99d289ba", "ok", {Obj("model")})

\* A line LineByLineTextDataset keeps: not empty and not all spaces.
NonBlank(l) == \E i \in DOMAIN l : l[i] # SP

\* LineByLineTextDataset(tokenizer, file_path, block_size): one example per
\* kept line, encoded and cut to block_size.
LineByLineTextDataset(tk, c, blockSize) ==
  LET ls == TextLines(c)
      kept == SelectSeq(ls, LAMBDA e : NonBlank(e.line))
  IN  [ n |-> SumSeq([i \in DOMAIN kept |-> kept[i].count]),
        examples |-> [i \in DOMAIN kept |->
                        Encode([tk EXCEPT !.trunc = blockSize], kept[i].line)] ]

\* dataset = LineByLineTextDataset(tokenizer=tokenizer,
\*                                 file_path="./oscar.eo.txt", block_size=128)
\* It asserts that the file exists; the library may raise for its own reasons
\* (the corpus is read into memory at once, and `tokenizer` is still the
\* tokenizers object of cell edb74619, which the dataset may not accept).
MakeDataset ==
  /\ Running("58873f3e")
  /\ \E libOk \in BOOLEAN :
       IF ~libOk \/ ~ns.tokenizer.defined \/ OscarTxt \notin DOMAIN fs
       THEN Raise("58873f3e")
       ELSE LET ds == LineByLineTextDataset(ns.tokenizer, fs[OscarTxt], BlockSize)
            IN  /\ ns' = [ns EXCEPT !.dataset =
                            [defined |-> TRUE, n |-> ds.n, examples |-> ds.examples,
                             file_path |-> OscarTxt, block_size |-> BlockSize]]
                /\ producedBy' = Produce({Obj("dataset")}, "58873f3e")
                /\ out' = [kind |-> "none"]
                /\ UNCHANGED << fs, dirs, installed >>
                /\ Finish("58873f3e", "ok", {OscarTxt, Obj("tokenizer")})

\* data_collator = DataCollatorForLanguageModeling(tokenizer, mlm=True,
\*                                                 mlm_probability=0.15)
MakeDataCollator ==
  /\ Running("0192ab9b")
  /\ IF ~ns.tokenizer.defined THEN Raise("0192ab9b")
     ELSE /\ ns' = [ns EXCEPT !.data_collator =
                      [defined |-> TRUE, mlm |-> TRUE,
                       mlm_probability_pct |-> MlmProbabilityPct]]
          /\ producedBy' = Produce({Obj("data_collator")}, "0192ab9b")
          /\ out' = [kind |-> "none"]
          /\ UNCHANGED << fs, dirs, installed >>
          /\ FinishCalling("0192ab9b", "ok", {Obj("tokenizer")},
                           "DataCollatorForLanguageModeling",
                           [mlm |-> TRUE, mlm_probability_pct |-> MlmProbabilityPct])

\* The keywords of the notebook's TrainingArguments(...) call.
TrainingArguments ==
  [ output_dir |-> OutputDir, overwrite_output_dir |-> TRUE,
    num_train_epochs |-> NumTrainEpochs,
    per_gpu_train_batch_size |-> PerGpuTrainBatchSize,
    save_steps |-> SaveSteps, save_total_limit |-> SaveTotalLimit,
    prediction_loss_only |-> TRUE ]

\* A Trainer that empties an output directory it is told to overwrite.
WipeOutputDir(f, args) ==
  IF args.overwrite_output_dir
  THEN RemoveFiles(f, {p \in DOMAIN f : p.dir = args.output_dir})
  ELSE f

\* What Trainer(...) does to the working directory: it makes output_dir when
\* it is missing and leaves what the directory holds; overwrite_output_dir is
\* a flag for the example scripts, the Trainer does not read it.
PrepareOutputDir(f, args) == f

\* training_args = TrainingArguments(...); trainer = Trainer(model, args, ...)
MakeTrainer ==
  /\ Running("de381787")
  /\ IF ~(ns.model.defined /\ ns.data_collator.defined /\ ns.dataset.defined)
     THEN Raise("de381787")
     ELSE /\ ns' = [ns EXCEPT
                      !.training_args = [defined |-> TRUE, value |-> TrainingArguments],
                      !.trainer = [defined |-> TRUE, args |-> TrainingArguments]]
          /\ fs' = PrepareOutputDir(fs, TrainingArguments)
          /\ dirs' = dirs \cup {OutputDir}
          /\ producedBy' = Produce({Obj("training_args"), Obj("trainer")}, "de381787")
          /\ out' = [kind |-> "none"]
          /\ UNCHANGED installed
          /\ FinishCalling("de381787", "ok",
                           {Obj("model"), Obj("data_collator"), Obj("dataset")},
                           "TrainingArguments", TrainingArguments)

\* The files of one saved model: in output_dir itself (k = 0) or in its
\* checkpoint-k.
ModelFiles(k) ==
  {OutFile(k, "pytorch_model", "bin"), OutFile(k, "config", "json"),
   OutFile(k, "training_args", "bin")}

\* Trainer.save_model(dir): the weights, the configuration, the arguments.
SaveModelFiles(f, k, model) ==
  WriteFile(WriteFile(WriteFile(f,
      OutFile(k, "pytorch_model", "bin"), WeightsFile(model.weights)),
      OutFile(k, "config", "json"), ConfigFile(model.config)),
      OutFile(k, "training_args", "bin"), BlobFile)

\* The checkpoint-k directories of output_dir.
Checkpoints(f) == {p.ckpt : p \in {q \in DOMAIN f : q.dir = OutputDir /\ q.ckpt > 0}}

\* _rotate_checkpoints: with more than save_total_limit checkpoint-*
\* directories, the ones of lowest number are deleted, and nothing else.
RECURSIVE RotateCheckpoints(_, _)
RotateCheckpoints(f, limit) ==
  LET cks == Checkpoints(f)
      oldest == CHOOSE k \in cks : \A j \in cks : k <= j
  IN  IF limit <= 0 \/ Cardinality(cks) <= limit THEN f
      ELSE RotateCheckpoints(
             RemoveFiles(f, {p \in DOMAIN f : p.dir = OutputDir /\ p.ckpt = oldest}),
             limit)

\* The checkpoints from..to of a training run, written one after the other:
\* the model, the optimizer and the scheduler, then the rotation.
RECURSIVE SaveCheckpoints(_, _, _, _, _)
SaveCheckpoints(f, from, to, args, model) ==
  IF from > to THEN f
  ELSE LET k == from * args.save_steps
           m == [model EXCEPT !.weights.step = k]
           g == WriteFile(WriteFile(SaveModelFiles(f, k, m),
                    OutFile(k, "optimizer", "pt"), BlobFile),
                    OutFile(k, "scheduler", "pt"), BlobFile)
       IN  SaveCheckpoints(RotateCheckpoints(g, args.save_total_limit),
                           from + 1, to, args, model)

Max(a, b) == IF a >= b THEN a ELSE b

\* The optimisation steps of trainer.train(): the epochs times the batches of
\* per_gpu_train_batch_size * max(1, n_gpu) examples.
TrainSteps(args, n) ==
  LET b == args.per_gpu_train_batch_size * Max(1, ngpu)
  IN  args.num_train_epochs * ((n + b - 1) \div b)

\* trainer.train(): it runs all its steps, saving a checkpoint every
\* save_steps steps, or it raises (out of memory, a CUDA error) in its first
\* step or after its last checkpoint.  The model object is trained in place.
TrainerTrain ==
  /\ Running("107a6a6c")
  /\ IF ~(ns.trainer.defined /\ ns.model.defined /\ ns.dataset.defined)
     THEN Raise("107a6a6c")
     ELSE LET args == ns.trainer.args
              steps == TrainSteps(args, ns.dataset.n)
              nck == steps \div args.save_steps
              trained(k) == [ns.model EXCEPT
                               !.weights = [step |-> k, trained_on |-> ns.dataset.examples]]
          IN  \E done \in {0, nck, nck + 1} :
                IF done <= nck
                THEN /\ fs' = SaveCheckpoints(fs, 1, done, args, trained(0))
                     /\ ns' = [ns EXCEPT !.model = trained(done * args.save_steps)]
                     /\ out' = [kind |-> "error"]
                     /\ UNCHANGED << dirs, installed, producedBy >>
                     /\ Finish("107a6a6c", "error", {})
                ELSE /\ fs' = SaveCheckpoints(fs, 1, nck, args, trained(0))
                     /\ ns' = [ns EXCEPT !.model = trained(steps)]
                     /\ producedBy' = Produce({Obj("model")}, "107a6a6c")
                     /\ out' = [kind |-> "value", value |-> steps]
                     /\ UNCHANGED << dirs, installed >>
                     /\ Finish("107a6a6c", "ok", {Obj("model"), Obj("dataset")})

\* trainer.save_model("./EsperBERTo")
TrainerSaveModel ==
  /\ Running("2e6453e9")
  /\ IF ~(ns.trainer.defined /\ ns.model.defined) THEN Raise("2e6453e9")
     ELSE /\ fs' = SaveModelFiles(fs, 0, ns.model)
          /\ dirs' = dirs \cup {OutputDir}
          /\ producedBy' = Produce(ModelFiles(0), "2e6453e9")
          /\ out' = [kind |-> "none"]
          /\ UNCHANGED << installed, ns >>
          /\ Finish("2e6453e9", "ok", {Obj("model")})

(***************************************************************************)
(* 4. Check that the LM actually trained                                   *)
(***************************************************************************)
\* What pipeline("fill-mask", model=dir, tokenizer=dir) reads from dir.
PipelineFiles ==
  {OutFile(0, "config", "json"), OutFile(0, "pytorch_model", "bin"), VocabJson, MergesTxt}

\* fill_mask = pipeline("fill-mask", model="./EsperBERTo", tokenizer="./EsperBERTo")
MakePipeline ==
  /\ Running("feec1cb8")
  /\ IF ~installed \/ ~(PipelineFiles \subseteq DOMAIN fs) THEN Raise("feec1cb8")
     ELSE /\ ns' = [ns EXCEPT !.fill_mask =
                      [defined |-> TRUE,
                       config |-> fs[OutFile(0, "config", "json")].config,
                       weights |-> fs[OutFile(0, "pytorch_model", "bin")].weights,
                       vocab |-> VocabOfDict(fs[VocabJson].vocab),
                       merges |-> fs[MergesTxt].merges]]
          /\ producedBy' = Produce({Obj("fill_mask")}, "feec1cb8")
          /\ out' = [kind |-> "none"]
          /\ UNCHANGED << fs, dirs, installed >>
          /\ Finish("feec1cb8", "ok", PipelineFiles)

\* fill_mask(prompt): the completions the loaded model gives.
FillMask(c, prompt) ==
  /\ Running(c)
  /\ IF ~ns.fill_mask.defined THEN Raise(c)
     ELSE /\ out' = [kind |-> "fill_mask", prompt |-> prompt,
                     weights |-> ns.fill_mask.weights]
          /\ UNCHANGED << fs, dirs, installed, producedBy, ns >>
          /\ Finish(c, "ok", {Obj("fill_mask")})

\* fill_mask("La suno <mask>.")
FillMaskSuno == FillMask("c01b777c", "La suno <mask>.")

\* fill_mask("Jen la komenco de bela <mask>.")
FillMaskKomenco == FillMask("9b916992", "Jen la komenco de bela <mask>.")

\* The empty cell that ends the notebook.
EmptyCell ==
  /\ Running("caa66234")
  /\ out' = [kind |-> "none"]
  /\ UNCHANGED << fs, dirs, installed, producedBy, ns >>
  /\ Finish("caa66234", "ok", {})

(***************************************************************************)
(* Running the notebook again                                              *)
(***************************************************************************)
RunEnded == InProgress = {} /\ (halted \/ Len(finished) = NumCells)

\* Restart the kernel and run all cells: the namespace is lost, the working
\* directory and the installed packages stay.
RestartAndRunAll ==
  /\ run < MaxRuns
  /\ RunEnded
  /\ run' = run + 1
  /\ firstRun' = IF run = 1 THEN finished ELSE firstRun
  /\ started' = << >>
  /\ finished' = << >>
  /\ halted' = FALSE
  /\ ns' = EmptyNamespace
  /\ out' = [kind |-> "none"]
  /\ calls' = << >>
  /\ producedBy' = [a \in {b \in DOMAIN producedBy : b.dir # "<kernel>"} |-> producedBy[a]]
  /\ UNCHANGED << fs, dirs, installed, ngpu, remote >>

Next ==
  \/ StartCell
  \/ DownloadCorpus
  \/ PipInstall
  \/ TrainTokenizer
  \/ SaveTokenizer
  \/ ReloadTokenizer
  \/ SetPostProcessor
  \/ EncodeSample
  \/ EncodeSampleTokens
  \/ CheckCuda
  \/ MakeConfig
  \/ MakeModel
  \/ ShowNumParameters
  \/ MakeDataset
  \/ MakeDataCollator
  \/ MakeTrainer
  \/ TrainerTrain
  \/ TrainerSaveModel
  \/ MakePipeline
  \/ FillMaskSuno
  \/ FillMaskKomenco
  \/ EmptyCell
  \/ RestartAndRunAll

Spec == Init /\ [][Next]_vars

(***************************************************************************)
(* The claims.                                                             *)
(***************************************************************************)
Complete == Len(finished) = NumCells /\ ~halted
Done(c) == \E i \in DOMAIN finished : finished[i].cell = c /\ finished[i].outcome # "error"

\* C1: the cells run strictly one at a time in the notebook's order (download
\* corpus, train tokenizer, construct model, train, fill-mask): at most one
\* cell is in progress, the cells begun and the cells ended are prefixes of the
\* notebook's list, and every artifact a cell that did not raise has read was
\* written before, by an earlier cell of this run or in an earlier run.
C1_OneStepAtATimeInOrder ==
  /\ Cardinality(InProgress) <= 1
  /\ Len(finished) <= Len(started) /\ Len(started) <= Len(finished) + 1
  /\ \A i \in DOMAIN started : started[i] = Cells[i]
  /\ \A i \in DOMAIN finished : finished[i].cell = Cells[i]
  /\ \A i \in DOMAIN finished :
       finished[i].outcome # "error" =>
         \A a \in finished[i].reads :
           /\ a \in DOMAIN producedBy
           /\ \E w \in producedBy[a] : w.run < run \/ CellNo(w.cell) < i

\* C1's case: a run in which every cell has ended, the pipeline having read
\* the tokenizer files and the saved model.
C1_Witness ==
  /\ Complete
  /\ \E i \in DOMAIN finished :
       finished[i].cell = "feec1cb8" /\ finished[i].reads = PipelineFiles

\* C2 as stated: every listed value is a literal keyword of the call that
\* takes it (hidden size 768 among those of RobertaConfig), the model's
\* configuration holds these values, and tokenizer and model are given the
\* same vocabulary size.
C2_AllLiteralKeywords ==
  /\ "tokenizer.train" \in DOMAIN calls =>
       /\ calls["tokenizer.train"].vocab_size = 52000
       /\ calls["tokenizer.train"].min_frequency = 2
       /\ Len(calls["tokenizer.train"].special_tokens) = 5
  /\ "RobertaConfig" \in DOMAIN calls =>
       /\ {"num_hidden_layers", "num_attention_heads", "hidden_size",
           "max_position_embeddings"} \subseteq DOMAIN calls["RobertaConfig"]
       /\ calls["RobertaConfig"].num_hidden_layers = 6
       /\ calls["RobertaConfig"].num_attention_heads = 12
       /\ calls["RobertaConfig"].hidden_size = 768
       /\ calls["RobertaConfig"].max_position_embeddings = 514
  /\ "DataCollatorForLanguageModeling" \in DOMAIN calls =>
       calls["DataCollatorForLanguageModeling"].mlm_probability_pct = 15
  /\ "TrainingArguments" \in DOMAIN calls =>
       /\ calls["TrainingArguments"].num_train_epochs = 1
       /\ calls["TrainingArguments"].per_gpu_train_batch_size = 64

\* C2, amended: the values are literal keywords of the calls, except the
\* hidden size, which RobertaConfig is not given and takes from the library's
\* default; the configuration the model is built from has six layers, twelve
\* heads, hidden size 768 and 514 positions, and its vocabulary size is the
\* one given to the tokenizer.
C2_LiteralsAndDefaultHiddenSize ==
  /\ "tokenizer.train" \in DOMAIN calls =>
       /\ calls["tokenizer.train"].vocab_size = 52000
       /\ calls["tokenizer.train"].min_frequency = 2
       /\ Len(calls["tokenizer.train"].special_tokens) = 5
  /\ "RobertaConfig" \in DOMAIN calls =>
       /\ DOMAIN calls["RobertaConfig"] =
            {"vocab_size", "max_position_embeddings", "num_attention_heads",
             "num_hidden_layers", "type_vocab_size"}
       /\ calls["RobertaConfig"].num_hidden_layers = 6
       /\ calls["RobertaConfig"].num_attention_heads = 12
       /\ calls["RobertaConfig"].max_position_embeddings = 514
       /\ "tokenizer.train" \in DOMAIN calls =>
            calls["RobertaConfig"].vocab_size = calls["tokenizer.train"].vocab_size
  /\ "DataCollatorForLanguageModeling" \in DOMAIN calls =>
       calls["DataCollatorForLanguageModeling"].mlm_probability_pct = 15
  /\ "TrainingArguments" \in DOMAIN calls =>
       /\ calls["TrainingArguments"].num_train_epochs = 1
       /\ calls["TrainingArguments"].per_gpu_train_batch_size = 64
  /\ ns.model.defined =>
       /\ ns.model.config.num_hidden_layers = 6
       /\ ns.model.config.num_attention_heads = 12
       /\ ns.model.config.hidden_size = 768
       /\ ns.model.config.max_position_embeddings = 514
       /\ ns.model.config.vocab_size = 52000

\* C2's case: the four calls have been made and the model has been built.
C2_Witness ==
  /\ DOMAIN calls = {"tokenizer.train", "RobertaConfig",
                     "DataCollatorForLanguageModeling", "TrainingArguments"}
  /\ ns.model.defined
  /\ ns.trainer.defined

\* C3 as stated: in a second run after a complete first run, the tokenizer
\* cells end as they did the first time and read what they read the first
\* time; in particular the files matched by the glob are the same.
C3_RerunSameInputs ==
  (run = 2 /\ Len(firstRun) = NumCells) =>
    \A i \in DOMAIN finished :
      finished[i].cell \in {"762d951b", "c924c50f"} =>
        /\ finished[i].outcome = firstRun[i].outcome
        /\ finished[i].reads = firstRun[i].reads

\* C4 as stated: no cell is run twice in a run, a failed download shows as a
\* failed outcome of the download cell, and neither tokenizer training nor
\* dataset construction ends without an error while oscar.eo.txt is missing.
C4_NoSilentSuccess ==
  /\ \A i, j \in DOMAIN started : started[i] = started[j] => i = j
  /\ (Done("184ba191") /\ OscarTxt \notin DOMAIN fs) =>
       finished[1].outcome = "exit_nonzero"
  /\ \A i \in DOMAIN finished :
       (finished[i].cell \in {"762d951b", "58873f3e"} /\ OscarTxt \notin DOMAIN fs)
         => finished[i].outcome = "error"

\* C5: every text is decomposed into tokens of the vocabulary: what
\* tokenizer.encode returns holds no <unk>, its only special tokens are the
\* <s> and </s> the post-processor puts around it, and the bytes of the tokens
\* between them are the text.
C5_NoUnkTokens ==
  out.kind = "encoding" =>
    LET n == Len(out.tokens)
        inner == SubSeq(out.tokens, 2, n - 1)
    IN  /\ n >= 2
        /\ out.tokens[1].sp = "<s>" /\ out.tokens[n].sp = "</s>"
        /\ \A i \in DOMAIN inner : inner[i].sp = ""
        /\ \A i \in DOMAIN out.tokens : out.tokens[i].sp # "<unk>"
        /\ Flatten([i \in DOMAIN inner |-> inner[i].bs]) = out.text
        /\ \A i \in DOMAIN out.ids : ns.tokenizer.vocab[out.ids[i] + 1] = out.tokens[i]

\* C5's case: the tokenizer was trained on the downloaded corpus and encodes a
\* text with a byte the corpus does not hold.
C5_Witness ==
  /\ out.kind = "encoding"
  /\ ns.paths.value = {OscarTxt}
  /\ \E i \in DOMAIN out.text :
       /\ out.text[i] # SP
       /\ out.text[i] \notin Range(fs[OscarTxt].lines[1].line)

\* C6: the tokenizer is trained with <s>, <pad>, </s>, <unk>, <mask>, which
\* get the ids 0..4 in this order; the post-processor is given </s> with id 2
\* and <s> with id 0; the begin, pad and end ids of the model's configuration
\* are the tokenizer's ids of <s>, <pad> and </s>.
C6_RobertaSpecialTokenIds ==
  /\ "tokenizer.train" \in DOMAIN calls =>
       calls["tokenizer.train"].special_tokens = << "<s>", "<pad>", "</s>", "<unk>", "<mask>" >>
  /\ ns.tokenizer.defined =>
       /\ TokenToId(ns.tokenizer.vocab, SpecialTok("<s>")) = 0
       /\ TokenToId(ns.tokenizer.vocab, SpecialTok("<pad>")) = 1
       /\ TokenToId(ns.tokenizer.vocab, SpecialTok("</s>")) = 2
       /\ TokenToId(ns.tokenizer.vocab, SpecialTok("<unk>")) = 3
       /\ TokenToId(ns.tokenizer.vocab, SpecialTok("<mask>")) = 4
       /\ ns.tokenizer.post.set =>
            /\ ns.tokenizer.post.sep = << "</s>", 2 >>
            /\ ns.tokenizer.post.cls = << "<s>", 0 >>
  /\ (ns.tokenizer.defined /\ ns.model.defined) =>
       /\ ns.model.config.bos_token_id = TokenToId(ns.tokenizer.vocab, SpecialTok("<s>"))
       /\ ns.model.config.pad_token_id = TokenToId(ns.tokenizer.vocab, SpecialTok("<pad>"))
       /\ ns.model.config.eos_token_id = TokenToId(ns.tokenizer.vocab, SpecialTok("</s>"))

\* C6's case: the reloaded tokenizer has its post-processor, the model is
\* built, and the vocabulary holds merges beyond the alphabet.
C6_Witness ==
  /\ ns.tokenizer.defined /\ ns.tokenizer.post.set
  /\ ns.model.defined
  /\ Len(ns.tokenizer.vocab) > Len(SpecialTokens) + NumBytes

\* C7 as stated: a run in which every cell has ended holds a fine-tuning step
\* (part-of-speech tagging) after trainer.train().
C7_FineTuneAfterTraining ==
  Complete =>
    \E i, j \in DOMAIN finished :
      /\ i < j
      /\ finished[i].cell = "107a6a6c"
      /\ StepOf(finished[j].cell) = "fine-tune"

\* C8: once tokenizer.save_model has written vocab.json and merges.txt, they
\* stay in EsperBERTo as written through every later cell of the run (the
\* Trainer, its checkpoints and their rotation, trainer.save_model); when the
\* pipeline is made the directory holds them and the model trainer.save_model
\* wrote.
C8_TokenizerFilesSurvive ==
  /\ Done("c924c50f") =>
       /\ {VocabJson, MergesTxt} \subseteq DOMAIN fs
       /\ fs[VocabJson] = VocabFile(VocabDict(ns.tokenizer.vocab))
       /\ fs[MergesTxt] = MergesFile(ns.tokenizer.merges)
  /\ ns.fill_mask.defined =>
       /\ {OutFile(0, "pytorch_model", "bin"), OutFile(0, "config", "json")}
            \subseteq DOMAIN fs
       /\ fs[OutFile(0, "pytorch_model", "bin")] = WeightsFile(ns.model.weights)
       /\ ns.fill_mask.vocab = ns.tokenizer.vocab
       /\ ns.fill_mask.merges = ns.tokenizer.merges

\* C8's case: the pipeline is made after a training run that wrote three
\* checkpoints and deleted the first.
C8_Witness ==
  /\ ns.fill_mask.defined
  /\ ns.model.weights.step >= 3 * SaveSteps
  /\ SaveSteps \notin Checkpoints(fs)
  /\ 3 * SaveSteps \in Checkpoints(fs)

====
